---- MODULE Spec2Model ----
(***************************************************************************)
(* Model of layla_client.core.layla_service.LaylaService: the job          *)
(* lifecycle coordinator (submit_job, asubmit_job, _wait_for_completion)   *)
(* over the transport methods (_submit_job_request, get_job_status,        *)
(* delete_job).                                                            *)
(*                                                                         *)
(* Time is a discrete clock `now`.  Remote round trips and local           *)
(* computation take no time; time.sleep(poll_interval) is the only thing   *)
(* a call waits for, and poll_interval is at least one clock unit.         *)
(*                                                                         *)
(* Python values: None is the string NoneStr; an exception is a record     *)
(* [cls, msg] with msg the pieces of the formatted message; a response of  *)
(* the `requests` library is a record [code, body], code 0 standing for a  *)
(* transport failure (requests raised instead of returning a response).    *)
(***************************************************************************)
EXTENDS Integers, Sequences, FiniteSets, TLC

\* ------------------------------------------------------------------ bounds
\* largest timeout a caller passes (clock units)
MaxTimeout == 2
\* largest poll_interval a caller passes (clock units, at least 1)
MaxPollInterval == 2

\* how many calls of get_job_status / delete_job / _submit_job_request made
\* on their own are followed
MaxApiCalls == 2

\* ------------------------------------------------------------------ values
NoneStr == "<None>"

\* the calls of submit_job / asubmit_job on one LaylaService instance, and the
\* one among them that runs when calls are studied one at a time
Jobs == {1, 2}
Solo == {1}
JobIds == {"job-a", "job-b"}
Models == {"doc_qwen_3b_multi_v2.0.0_prod"}
ProgressTexts == {"1/10", "2/10"}
ResultTexts == {"# markdown"}
ErrorTexts == {"bad scan"}

\* Optional[str]: None, the empty string, or a text
OptStr(texts) == {NoneStr, ""} \cup texts

\* Python truthiness of an Optional[str]
Truthy(s) == s # NoneStr /\ s # ""

\* fields declared by the pydantic model JobStatusResponse
JobStatusResponseFields == {"job_id", "status", "model", "progress", "result", "error"}

\* An exception object
Exc(cls, msg) == [cls |-> cls, msg |-> msg]
NoExc == Exc(NoneStr, <<>>)

\* The outcome of a call: a returned value or a raised exception
Returned(v) == [ok |-> TRUE, val |-> v, exc |-> NoExc]
Raised(e) == [ok |-> FALSE, val |-> NoneStr, exc |-> e]
Pending == [ok |-> FALSE, val |-> NoneStr, exc |-> NoExc]

\* OcrJobResponse(job_id, status, model, message, result)
OcrJobResponse(job_id, status, model, message, result) ==
    [job_id |-> job_id, status |-> status, model |-> model,
     message |-> message, result |-> result]

\* JobStatusResponse(**response.json()): the declared fields; any other key
\* of the payload (extra) is ignored by pydantic
JobStatusResponse(job_id, status, progress, result, error) ==
    [job_id |-> job_id, status |-> status, model |-> NoneStr,
     result |-> result, progress |-> progress, error |-> error]

\* Attribute access obj.name on a JobStatusResponse
GetAttr(obj, name) ==
    IF name \in JobStatusResponseFields
    THEN Returned(obj[name])
    ELSE Raised(Exc("AttributeError", <<"JobStatusResponse", name>>))

\* ------------------------------------------------------------ the service
\* what the remote service can answer to GET /status/{job_id}
StatusPayloads ==
    [status : {"processing"}, result : {NoneStr},
     progress : OptStr(ProgressTexts), error : {NoneStr}]
    \cup [status : {"completed"}, result : OptStr(ResultTexts),
          progress : {NoneStr}, error : {NoneStr}]
    \cup [status : {"failed"}, result : {NoneStr},
          progress : {NoneStr}, error : OptStr(ErrorTexts)]
    \cup [status : {"queued"}, result : {NoneStr},
          progress : OptStr(ProgressTexts), error : {NoneStr}]
NoPayload == [status |-> NoneStr, result |-> NoneStr, progress |-> NoneStr, error |-> NoneStr]

\* response.text of an error response
ErrorBodies == {"detail"}

\* One HTTP exchange: `code` is response.status_code, 0 standing for a
\* requests exception raised without a response; `text` is response.text of
\* an error response.
StatusHttp ==
    [code : {200}, body : StatusPayloads, text : {""}]
    \cup [code : {0}, body : {NoPayload}, text : {""}]
    \cup [code : {401, 403, 404, 500, 503}, body : {NoPayload}, text : ErrorBodies]

DeleteHttp ==
    [code : {0, 200}, text : {""}]
    \cup [code : {401, 403, 404, 500, 503}, text : ErrorBodies]

SubmitHttp ==
    [job_id : JobIds, code : {0, 200}, text : {""}]
    \cup [job_id : JobIds, code : {400, 401, 403, 500, 503}, text : ErrorBodies]

\* str(e) of the requests.HTTPError that response.raise_for_status() raises
HTTPError(code) ==
    <<ToString(code), IF code < 500 THEN " Client Error" ELSE " Server Error">>

\* --------------------------------------------------------------- transport
\* raise LaylaError(f"Job not found: {job_id}")
JobNotFoundError(job_id) == Exc("LaylaError", <<"Job not found: ", job_id>>)

\* raise LaylaError(f"Invalid request: {response.text}")
InvalidRequestError(text) == Exc("LaylaError", <<"Invalid request: ", text>>)

\* raise LaylaError("Job completed but no result returned")
NoResultError == Exc("LaylaError", <<"Job completed but no result returned">>)

UnknownStatusError_AsJobFailed(status) ==
    Exc("JobFailedError", <<"Unknown job status: ", status>>)

\* raise LaylaError(f"Unknown job status: {status_response.status}")
UnknownStatusError(status) == Exc("LaylaError", <<"Unknown job status: ", status>>)

get_job_status_No404Branch(job_id, http) ==
    IF http.code = 0
    THEN Raised(Exc("NetworkError", <<"Failed to get job status: ", "ConnectionError">>))
    ELSE IF http.code = 401 THEN Raised(Exc("AuthenticationError", <<"Missing API key">>))
    ELSE IF http.code = 403 THEN Raised(Exc("AuthenticationError", <<"Invalid API key">>))
    ELSE IF http.code = 503
    THEN Raised(Exc("NetworkError", <<"Service unavailable (Redis disconnected)">>))
    ELSE IF http.code >= 400
    THEN Raised(Exc("NetworkError", <<"Failed to get job status: ">> \o HTTPError(http.code)))
    ELSE Returned(JobStatusResponse(job_id, http.body.status, http.body.progress,
                                    http.body.result, http.body.error))

get_job_status_Retries503(job_id, http) ==
    IF http.code = 0
    THEN Raised(Exc("NetworkError", <<"Failed to get job status: ", "ConnectionError">>))
    ELSE IF http.code = 401 THEN Raised(Exc("AuthenticationError", <<"Missing API key">>))
    ELSE IF http.code = 403 THEN Raised(Exc("AuthenticationError", <<"Invalid API key">>))
    ELSE IF http.code = 404 THEN Raised(JobNotFoundError(job_id))
    ELSE IF http.code = 503
    THEN Returned(JobStatusResponse(job_id, "processing", NoneStr, NoneStr, NoneStr))
    ELSE IF http.code >= 400
    THEN Raised(Exc("NetworkError", <<"Failed to get job status: ">> \o HTTPError(http.code)))
    ELSE Returned(JobStatusResponse(job_id, http.body.status, http.body.progress,
                                    http.body.result, http.body.error))

\* get_job_status(job_id) given the HTTP exchange `http`
get_job_status(job_id, http) ==
    IF http.code = 0
    THEN Raised(Exc("NetworkError", <<"Failed to get job status: ", "ConnectionError">>))
    ELSE IF http.code = 401 THEN Raised(Exc("AuthenticationError", <<"Missing API key">>))
    ELSE IF http.code = 403 THEN Raised(Exc("AuthenticationError", <<"Invalid API key">>))
    ELSE IF http.code = 404 THEN Raised(JobNotFoundError(job_id))
    ELSE IF http.code = 503
    THEN Raised(Exc("NetworkError", <<"Service unavailable (Redis disconnected)">>))
    ELSE IF http.code >= 400
    THEN \* raise_for_status() raises HTTPError, a RequestException, caught below it
         Raised(Exc("NetworkError", <<"Failed to get job status: ">> \o HTTPError(http.code)))
    ELSE Returned(JobStatusResponse(job_id, http.body.status, http.body.progress,
                                    http.body.result, http.body.error))

delete_job_NoAuthBranch(job_id, http) ==
    IF http.code = 0
    THEN Raised(Exc("NetworkError", <<"Failed to delete job: ", "ConnectionError">>))
    ELSE IF http.code = 404 THEN Raised(JobNotFoundError(job_id))
    ELSE IF http.code >= 400
    THEN Raised(Exc("NetworkError", <<"Failed to delete job: ">> \o HTTPError(http.code)))
    ELSE Returned([job_id |-> job_id, message |-> "deleted"])

delete_job_RaiseForStatusOutsideTry(job_id, http) ==
    IF http.code = 0
    THEN Raised(Exc("NetworkError", <<"Failed to delete job: ", "ConnectionError">>))
    ELSE IF http.code = 401 THEN Raised(Exc("AuthenticationError", <<"Missing API key">>))
    ELSE IF http.code = 403 THEN Raised(Exc("AuthenticationError", <<"Invalid API key">>))
    ELSE IF http.code = 404 THEN Raised(JobNotFoundError(job_id))
    ELSE IF http.code >= 400
    THEN Raised(Exc("HTTPError", HTTPError(http.code)))
    ELSE Returned([job_id |-> job_id, message |-> "deleted"])

\* delete_job(job_id) given the HTTP exchange `http`
delete_job(job_id, http) ==
    IF http.code = 0
    THEN Raised(Exc("NetworkError", <<"Failed to delete job: ", "ConnectionError">>))
    ELSE IF http.code = 401 THEN Raised(Exc("AuthenticationError", <<"Missing API key">>))
    ELSE IF http.code = 403 THEN Raised(Exc("AuthenticationError", <<"Invalid API key">>))
    ELSE IF http.code = 404 THEN Raised(JobNotFoundError(job_id))
    ELSE IF http.code >= 400
    THEN Raised(Exc("NetworkError", <<"Failed to delete job: ">> \o HTTPError(http.code)))
    ELSE Returned([job_id |-> job_id, message |-> "deleted"])

\* _submit_job_request(loader, model) given whether loader.load() finds the
\* file and the HTTP exchange `http`
submit_job_request(loader_ok, model, http) ==
    IF ~loader_ok THEN Raised(Exc("FileNotFoundError", <<"File not found: ">>))
    ELSE IF http.code = 0
    THEN Raised(Exc("NetworkError", <<"Failed to submit job: ", "ConnectionError">>))
    ELSE IF http.code = 401 THEN Raised(Exc("AuthenticationError", <<"Missing API key">>))
    ELSE IF http.code = 403 THEN Raised(Exc("AuthenticationError", <<"Invalid API key">>))
    ELSE IF http.code = 400 THEN Raised(InvalidRequestError(http.text))
    ELSE IF http.code = 503 THEN Raised(Exc("NetworkError", <<"Model service unavailable">>))
    ELSE IF http.code >= 400
    THEN Raised(Exc("NetworkError", <<"Failed to submit job: ">> \o HTTPError(http.code)))
    ELSE Returned(OcrJobResponse(http.job_id, "processing", model, "Job submitted", NoneStr))

\* ------------------------------------------------------------------- state
VARIABLES
    now,              \* the clock, time.time()
    caller,           \* per call: where the calling thread is
    pc,               \* per call: where the poll loop's thread of control is
    call,             \* per call: the arguments of submit_job / asubmit_job
    job_response,     \* per call: what _submit_job_request returned
    start_time,       \* _wait_for_completion: start_time
    last_progress,    \* _wait_for_completion: last_progress
    wake,             \* when the current time.sleep(poll_interval) ends
    requests,         \* per call: the remote calls issued, in order
    polls,            \* per call: the HTTP exchanges of its get_job_status calls
    progress_calls,   \* per call: the arguments of the progress_callback invocations
    completion_calls, \* per call: the arguments of the completion_callback invocations
    wait_result,      \* per call: how _wait_for_completion ended
    wait_end,         \* per call: the clock when _wait_for_completion ended
    delete_result,    \* per call: how the auto_delete call of delete_job ended
    outcome,          \* per call: what the caller of the entry point got
    api_last,         \* the latest call of a method made on its own, and its result
    api_count         \* how many such calls were made

vars == <<now, caller, pc, call, job_response, start_time, last_progress, wake,
          requests, polls, progress_calls, completion_calls, wait_result,
          wait_end, delete_result, outcome, api_last, api_count>>

\* the state of the submit_job / asubmit_job calls
job_vars == <<now, caller, pc, call, job_response, start_time, last_progress, wake,
              requests, polls, progress_calls, completion_calls, wait_result,
              wait_end, delete_result, outcome>>

Timeouts == (0 - MaxTimeout)..MaxTimeout
PollIntervals == 1..MaxPollInterval

\* the arguments of one call of an entry point
Calls ==
    [model : Models, mode : {"sync", "async"}, timeout : Timeouts,
     poll_interval : PollIntervals, has_progress_callback : BOOLEAN,
     auto_delete : BOOLEAN]
NoCall ==
    [model |-> NoneStr, mode |-> NoneStr, timeout |-> 0, poll_interval |-> 1,
     has_progress_callback |-> FALSE, auto_delete |-> FALSE]
NoResponse == OcrJobResponse(NoneStr, NoneStr, NoneStr, NoneStr, NoneStr)

\* one call of a method on its own: the method, its job_id argument, whether
\* it sent its request, the HTTP exchange and how the call ended
ApiCall(op, job_id, sent, http, result) ==
    [job_id |-> job_id, result |-> result, http |-> http, op |-> op, sent |-> sent]
NoApiCall == ApiCall(NoneStr, NoneStr, FALSE, [code |-> 0, text |-> ""], Pending)

Init ==
    /\ now = 0
    /\ caller = [j \in Jobs |-> "idle"]
    /\ pc = [j \in Jobs |-> "none"]
    /\ call = [j \in Jobs |-> NoCall]
    /\ job_response = [j \in Jobs |-> NoResponse]
    /\ start_time = [j \in Jobs |-> 0]
    /\ last_progress = [j \in Jobs |-> NoneStr]
    /\ wake = [j \in Jobs |-> 0]
    /\ requests = [j \in Jobs |-> <<>>]
    /\ polls = [j \in Jobs |-> <<>>]
    /\ progress_calls = [j \in Jobs |-> <<>>]
    /\ completion_calls = [j \in Jobs |-> <<>>]
    /\ wait_result = [j \in Jobs |-> Pending]
    /\ wait_end = [j \in Jobs |-> 0]
    /\ delete_result = [j \in Jobs |-> Pending]
    /\ outcome = [j \in Jobs |-> Pending]
    /\ api_last = NoApiCall
    /\ api_count = 0

Request(op, job_id) == [job_id |-> job_id, op |-> op]

\* ------------------------------------------------------------ entry points
\* a caller enters submit_job(loader, model, timeout, poll_interval,
\* progress_callback, auto_delete)
CallSubmitJob(j) ==
    /\ caller[j] = "idle"
    /\ \E c \in Calls :
        /\ c.mode = "sync"
        /\ call' = [call EXCEPT ![j] = c]
    /\ caller' = [caller EXCEPT ![j] = "submitting"]
    /\ UNCHANGED <<api_last, api_count, now, pc, job_response, start_time, last_progress, wake, requests,
                   polls, progress_calls, completion_calls, wait_result, wait_end,
                   delete_result, outcome>>

\* a caller enters asubmit_job(loader, completion_callback, model,
\* progress_callback, timeout, poll_interval, auto_delete)
CallAsubmitJob(j) ==
    /\ caller[j] = "idle"
    /\ \E c \in Calls :
        /\ c.mode = "async"
        /\ call' = [call EXCEPT ![j] = c]
    /\ caller' = [caller EXCEPT ![j] = "submitting"]
    /\ UNCHANGED <<api_last, api_count, now, pc, job_response, start_time, last_progress, wake, requests,
                   polls, progress_calls, completion_calls, wait_result, wait_end,
                   delete_result, outcome>>

SubmitJobRequest_PollsAnyway(j) ==
    /\ caller[j] = "submitting"
    /\ \E loader_ok \in BOOLEAN, http \in SubmitHttp :
        LET r == submit_job_request(loader_ok, call[j].model, http) IN
        /\ requests' = [requests EXCEPT ![j] =
                IF loader_ok THEN Append(@, Request("submit", NoneStr)) ELSE @]
        /\ job_response' = [job_response EXCEPT ![j] = IF r.ok THEN r.val ELSE @]
        /\ caller' = [caller EXCEPT ![j] =
                IF call[j].mode = "sync" THEN "blocked" ELSE "start_thread"]
        /\ pc' = [pc EXCEPT ![j] = IF call[j].mode = "sync" THEN "begin" ELSE @]
    /\ UNCHANGED <<api_last, api_count, now, call, start_time, last_progress, wake, polls,
                   progress_calls, completion_calls, wait_result, wait_end,
                   delete_result, outcome>>

\* job_response = self._submit_job_request(loader, model): on an exception the
\* entry point raises it to its caller; otherwise submit_job goes on into
\* _wait_for_completion and asubmit_job goes on to start its worker thread
SubmitJobRequest(j) ==
    /\ caller[j] = "submitting"
    /\ \E loader_ok \in BOOLEAN, http \in SubmitHttp :
        LET r == submit_job_request(loader_ok, call[j].model, http) IN
        /\ requests' = [requests EXCEPT ![j] =
                IF loader_ok THEN Append(@, Request("submit", NoneStr)) ELSE @]
        /\ IF r.ok
           THEN /\ job_response' = [job_response EXCEPT ![j] = r.val]
                /\ caller' = [caller EXCEPT ![j] =
                        IF call[j].mode = "sync" THEN "blocked" ELSE "start_thread"]
                /\ pc' = [pc EXCEPT ![j] = IF call[j].mode = "sync" THEN "begin" ELSE @]
                /\ UNCHANGED outcome
           ELSE /\ caller' = [caller EXCEPT ![j] = "done"]
                /\ outcome' = [outcome EXCEPT ![j] = r]
                /\ UNCHANGED <<job_response, pc>>
    /\ UNCHANGED <<api_last, api_count, now, call, start_time, last_progress, wake, polls, progress_calls,
                   completion_calls, wait_result, wait_end, delete_result>>

\* asubmit_job: thread = threading.Thread(target=background_worker); thread.start()
StartThread(j) ==
    /\ caller[j] = "start_thread"
    /\ caller' = [caller EXCEPT ![j] = "return"]
    /\ pc' = [pc EXCEPT ![j] = "begin"]
    /\ UNCHANGED <<api_last, api_count, now, call, job_response, start_time, last_progress, wake, requests,
                   polls, progress_calls, completion_calls, wait_result, wait_end,
                   delete_result, outcome>>

AsubmitReturn_JoinsWorker(j) ==
    /\ caller[j] = "return"
    /\ pc[j] \in {"done", "crashed"}
    /\ caller' = [caller EXCEPT ![j] = "done"]
    /\ outcome' = [outcome EXCEPT ![j] = Returned(job_response[j])]
    /\ UNCHANGED <<api_last, api_count, now, pc, call, job_response, start_time, last_progress, wake,
                   requests, polls, progress_calls, completion_calls, wait_result,
                   wait_end, delete_result>>

\* asubmit_job: return job_response
AsubmitReturn(j) ==
    /\ caller[j] = "return"
    /\ caller' = [caller EXCEPT ![j] = "done"]
    /\ outcome' = [outcome EXCEPT ![j] = Returned(job_response[j])]
    /\ UNCHANGED <<api_last, api_count, now, pc, call, job_response, start_time, last_progress, wake,
                   requests, polls, progress_calls, completion_calls, wait_result,
                   wait_end, delete_result>>

\* --------------------------------------------------- _wait_for_completion
TimedOut_AtTimeout(elapsed, timeout) == elapsed >= timeout

TimedOut_Lenient(elapsed, timeout) == elapsed > timeout + timeout

\* if elapsed > timeout
TimedOut(elapsed, timeout) == elapsed > timeout

\* status 'completed': the value returned, or the exception raised
\*     if status_response.markdown is None: raise LaylaError(...)
\*     return status_response.markdown
CompletedResult(status_response) ==
    LET markdown == GetAttr(status_response, "markdown") IN
    IF ~markdown.ok THEN markdown
    ELSE IF markdown.val = NoneStr
    THEN Raised(NoResultError)
    ELSE Returned(markdown.val)

FailedError_NoDefault(job_id, status_response) ==
    Exc("JobFailedError", <<"Job ", job_id, " failed: ", status_response.error>>)

\* status 'failed': error_msg = status_response.error or "Unknown error"
FailedError(job_id, status_response) ==
    LET error_msg == IF Truthy(status_response.error)
                     THEN status_response.error ELSE "Unknown error" IN
    Exc("JobFailedError", <<"Job ", job_id, " failed: ", error_msg>>)

ShouldNotify_EveryPoll(has_progress_callback, progress, last) ==
    has_progress_callback /\ Truthy(progress)

\* status 'processing': whether progress_callback is invoked
\*     if progress_callback and status_response.progress:
\*         if status_response.progress != last_progress:
ShouldNotify(has_progress_callback, progress, last) ==
    has_progress_callback /\ Truthy(progress) /\ progress # last

WaitBegin_SharedLocals(j) ==
    /\ pc[j] = "begin"
    /\ pc' = [pc EXCEPT ![j] = "loop"]
    /\ start_time' = [k \in Jobs |-> now]
    /\ last_progress' = [k \in Jobs |-> NoneStr]
    /\ wake' = [wake EXCEPT ![j] = now]
    /\ UNCHANGED <<api_last, api_count, now, caller, call, job_response, requests, polls,
                   progress_calls, completion_calls, wait_result, wait_end,
                   delete_result, outcome>>

\* def _wait_for_completion(...): start_time = time.time(); last_progress = None
WaitBegin(j) ==
    /\ pc[j] = "begin"
    /\ pc' = [pc EXCEPT ![j] = "loop"]
    /\ start_time' = [start_time EXCEPT ![j] = now]
    /\ last_progress' = [last_progress EXCEPT ![j] = NoneStr]
    /\ wake' = [wake EXCEPT ![j] = now]
    /\ UNCHANGED <<api_last, api_count, now, caller, call, job_response, requests, polls, progress_calls,
                   completion_calls, wait_result, wait_end, delete_result, outcome>>

AtLoopTop_AfterEndToo(j) == pc[j] \in {"loop", "waited"} /\ now >= wake[j]

\* the top of an iteration of `while True`, the sleep of the one before over
AtLoopTop(j) == pc[j] = "loop" /\ now >= wake[j]

\* _wait_for_completion ends, returning or raising `r`
EndWait(j, r) ==
    /\ pc' = [pc EXCEPT ![j] = "waited"]
    /\ wait_result' = [wait_result EXCEPT ![j] = r]
    /\ wait_end' = [wait_end EXCEPT ![j] = now]

\* an iteration that finds elapsed > timeout: raise JobTimeoutError
IterTimeout(j) ==
    /\ AtLoopTop(j)
    /\ TimedOut(now - start_time[j], call[j].timeout)
    /\ EndWait(j, Raised(Exc("JobTimeoutError",
            <<"Job ", job_response[j].job_id, " exceeded timeout of ",
              ToString(call[j].timeout), "s">>)))
    /\ UNCHANGED <<api_last, api_count, now, caller, call, job_response, start_time, last_progress, wake,
                   requests, polls, progress_calls, completion_calls, delete_result, outcome>>

MayPoll_Unchecked(j) == TRUE

\* the iteration got past `if elapsed > timeout: raise JobTimeoutError(...)`
MayPoll(j) == ~TimedOut(now - start_time[j], call[j].timeout)

\* an iteration that polls: status_response = self.get_job_status(job_id), then
\* the branch on status_response.status
IterPoll(j, http, callback_raises) ==
    LET job_id == job_response[j].job_id
        r == get_job_status(job_id, http)
        sr == r.val
    IN
    /\ AtLoopTop(j)
    /\ MayPoll(j)
    /\ requests' = [requests EXCEPT ![j] = Append(@, Request("status", job_id))]
    /\ polls' = [polls EXCEPT ![j] = Append(@, http)]
    /\ IF ~r.ok
       THEN /\ EndWait(j, r)
            /\ UNCHANGED <<last_progress, wake, progress_calls>>
       ELSE IF sr.status = "completed"
       THEN /\ EndWait(j, CompletedResult(sr))
            /\ UNCHANGED <<last_progress, wake, progress_calls>>
       ELSE IF sr.status = "failed"
       THEN /\ EndWait(j, Raised(FailedError(job_id, sr)))
            /\ UNCHANGED <<last_progress, wake, progress_calls>>
       ELSE IF sr.status = "processing"
       THEN IF ShouldNotify(call[j].has_progress_callback, sr.progress, last_progress[j])
            THEN /\ progress_calls' = [progress_calls EXCEPT ![j] = Append(@, sr.progress)]
                 /\ IF callback_raises
                    THEN /\ EndWait(j, Raised(Exc("CallbackError", <<"progress_callback">>)))
                         /\ UNCHANGED <<last_progress, wake>>
                    ELSE /\ last_progress' = [last_progress EXCEPT ![j] = sr.progress]
                         /\ wake' = [wake EXCEPT ![j] = now + call[j].poll_interval]
                         /\ UNCHANGED <<pc, wait_result, wait_end>>
            ELSE /\ ~callback_raises
                 /\ wake' = [wake EXCEPT ![j] = now + call[j].poll_interval]
                 /\ UNCHANGED <<pc, wait_result, wait_end, last_progress, progress_calls>>
       ELSE /\ EndWait(j, Raised(UnknownStatusError(sr.status)))
            /\ UNCHANGED <<last_progress, wake, progress_calls>>
    /\ UNCHANGED <<api_last, api_count, now, caller, call, job_response, start_time, completion_calls,
                   delete_result, outcome>>

\* the poll whose get_job_status raises
IterStatusError(j) ==
    \E http \in StatusHttp : http.code # 200 /\ IterPoll(j, http, FALSE)

\* the poll that reports 'completed'
IterCompleted(j) ==
    \E http \in StatusHttp :
        http.code = 200 /\ http.body.status = "completed" /\ IterPoll(j, http, FALSE)

\* the poll that reports 'failed'
IterFailed(j) ==
    \E http \in StatusHttp :
        http.code = 200 /\ http.body.status = "failed" /\ IterPoll(j, http, FALSE)

\* the poll that reports 'processing'; progress_callback, when invoked, returns
\* or raises
IterProcessing(j) ==
    \E http \in StatusHttp, callback_raises \in BOOLEAN :
        http.code = 200 /\ http.body.status = "processing"
        /\ IterPoll(j, http, callback_raises)

\* the poll that reports a status outside processing/completed/failed
IterUnknown(j) ==
    \E http \in StatusHttp :
        /\ http.code = 200
        /\ http.body.status \notin {"processing", "completed", "failed"}
        /\ IterPoll(j, http, FALSE)

\* ------------------------------------------- after _wait_for_completion
\* The statements of submit_job / background_worker that follow a normal
\* return of _wait_for_completion: the best-effort delete, given the HTTP
\* exchange `http` of delete_job
\*     if auto_delete:
\*         try: self.delete_job(job_response.job_id)
\*         except Exception: pass
AutoDelete(j, http) ==
    IF call[j].auto_delete
    THEN /\ requests' = [requests EXCEPT ![j] =
                Append(@, Request("delete", job_response[j].job_id))]
         /\ delete_result' = [delete_result EXCEPT ![j] =
                delete_job(job_response[j].job_id, http)]
    ELSE UNCHANGED <<requests, delete_result>>

\* OcrJobResponse(job_id=job_response.job_id, status="completed",
\*                model=job_response.model, message=..., result=result)
FinalResponse(j) ==
    OcrJobResponse(job_response[j].job_id, "completed", job_response[j].model,
                   "Job completed successfully", wait_result[j].val)

\* one invocation completion_callback(response, error)
CompletionCall(response, error) == [error |-> error, response |-> response]

\* submit_job after _wait_for_completion: an exception of it propagates to the
\* caller; otherwise the delete, then return OcrJobResponse(...)
SubmitJobTail(j) ==
    /\ pc[j] = "waited"
    /\ call[j].mode = "sync"
    /\ pc' = [pc EXCEPT ![j] = "done"]
    /\ caller' = [caller EXCEPT ![j] = "done"]
    /\ IF wait_result[j].ok
       THEN /\ \E http \in DeleteHttp : AutoDelete(j, http)
            /\ outcome' = [outcome EXCEPT ![j] = Returned(FinalResponse(j))]
       ELSE /\ outcome' = [outcome EXCEPT ![j] = wait_result[j]]
            /\ UNCHANGED <<requests, delete_result>>
    /\ UNCHANGED <<api_last, api_count, now, call, job_response, start_time, last_progress, wake, polls,
                   progress_calls, completion_calls, wait_result, wait_end>>

\* the exception classes of layla_client.datamodels.exceptions, all derived
\* from LaylaError
LaylaErrorClasses ==
    {"LaylaError", "JobTimeoutError", "JobFailedError", "NetworkError",
     "AuthenticationError"}

\* isinstance(e, base)
IsInstance(e, base) ==
    \/ base = "Exception"
    \/ base = "LaylaError" /\ e.cls \in LaylaErrorClasses
    \/ e.cls = base

WorkerCatches_LaylaErrorOnly(e) == IsInstance(e, "LaylaError")

\* background_worker: `except Exception as e`
WorkerCatches(e) == IsInstance(e, "Exception")

\* background_worker after _wait_for_completion, inside its try: an exception
\* goes to `except Exception as e: completion_callback(None, e)`; otherwise the
\* delete, then completion_callback(final_response, None), whose own exception
\* (raises1) is caught by the same handler.  An exception of the handler's own
\* call (raises2), like one the handler does not catch, leaves the thread.
BackgroundWorkerTail(j) ==
    LET callback_exc == Exc("CallbackError", <<"completion_callback">>) IN
    /\ pc[j] = "waited"
    /\ call[j].mode = "async"
    /\ \E raises1 \in BOOLEAN, raises2 \in BOOLEAN :
        IF wait_result[j].ok
        THEN /\ \E http \in DeleteHttp : AutoDelete(j, http)
             /\ (~raises1 => ~raises2)
             /\ completion_calls' = [completion_calls EXCEPT ![j] =
                  IF raises1 /\ WorkerCatches(callback_exc)
                  THEN @ \o <<CompletionCall(FinalResponse(j), NoExc),
                              CompletionCall(NoResponse, callback_exc)>>
                  ELSE Append(@, CompletionCall(FinalResponse(j), NoExc))]
             /\ pc' = [pc EXCEPT ![j] =
                  IF raises1 /\ (raises2 \/ ~WorkerCatches(callback_exc))
                  THEN "crashed" ELSE "done"]
        ELSE /\ ~raises1
             /\ IF WorkerCatches(wait_result[j].exc)
                THEN /\ completion_calls' = [completion_calls EXCEPT ![j] =
                          Append(@, CompletionCall(NoResponse, wait_result[j].exc))]
                     /\ pc' = [pc EXCEPT ![j] = IF raises2 THEN "crashed" ELSE "done"]
                ELSE /\ ~raises2
                     /\ pc' = [pc EXCEPT ![j] = "crashed"]
                     /\ UNCHANGED completion_calls
             /\ UNCHANGED <<requests, delete_result>>
    /\ UNCHANGED <<api_last, api_count, now, caller, call, job_response, start_time, last_progress, wake,
                   polls, progress_calls, wait_result, wait_end, outcome>>

\* ------------------------------------------------------------------- clock
\* a thread that has a step to take now
Runnable(j) ==
    \/ caller[j] \in {"submitting", "start_thread", "return"}
    \/ pc[j] \in {"begin", "waited"}
    \/ AtLoopTop(j)

\* a thread inside time.sleep(poll_interval)
Sleeping(j) == pc[j] = "loop" /\ now < wake[j]

\* time passes while every started thread is asleep
Tick ==
    /\ \E j \in Jobs : Sleeping(j)
    /\ \A j \in Jobs : ~Runnable(j)
    /\ now' = now + 1
    /\ UNCHANGED <<caller, pc, call, job_response, start_time, last_progress, wake,
                   requests, polls, progress_calls, completion_calls, wait_result,
                   wait_end, delete_result, outcome, api_last, api_count>>

Next ==
    \/ \E j \in Solo :
        \/ CallSubmitJob(j)
        \/ CallAsubmitJob(j)
        \/ SubmitJobRequest(j)
        \/ StartThread(j)
        \/ AsubmitReturn(j)
        \/ WaitBegin(j)
        \/ IterTimeout(j)
        \/ IterStatusError(j)
        \/ IterCompleted(j)
        \/ IterFailed(j)
        \/ IterProcessing(j)
        \/ IterUnknown(j)
        \/ SubmitJobTail(j)
        \/ BackgroundWorkerTail(j)
    \/ Tick

Spec == Init /\ [][Next]_vars

\* the threads keep running and the clock keeps advancing
FairSpec == Spec /\ WF_vars(Next)

\* ------------------------------------------------- calls running together
\* Two calls on the same instance, each on its own thread, against a service
\* that accepts both submissions under different job ids and answers the
\* polls with "processing" (with a progress value) or "failed"; the callbacks
\* return normally.
ConcJobId(j) == IF j \in Solo THEN "job-a" ELSE "job-b"

ConcCalls ==
    {c \in Calls : c.timeout > 0 /\ c.has_progress_callback /\ ~c.auto_delete}

ConcStatusHttp ==
    {h \in StatusHttp :
        /\ h.code = 200
        /\ \/ h.body.status = "processing" /\ h.body.progress \in ProgressTexts
           \/ h.body.status = "failed" /\ h.body.error \in ErrorTexts}

\* what a step of call j may have produced in that environment
ConcEnv(j) ==
    /\ call'[j] \in ConcCalls
    /\ job_response'[j] = NoResponse => caller'[j] \in {"idle", "submitting"}
    /\ job_response'[j] # NoResponse => job_response'[j].job_id = ConcJobId(j)
    /\ \A i \in 1..Len(polls'[j]) : polls'[j][i] \in ConcStatusHttp
    /\ wait_result'[j].exc.cls # "CallbackError"
    /\ pc'[j] # "crashed"

ConcCallSubmitJob(j) == CallSubmitJob(j) /\ ConcEnv(j)
ConcCallAsubmitJob(j) == CallAsubmitJob(j) /\ ConcEnv(j)
ConcSubmitJobRequest(j) == SubmitJobRequest(j) /\ ConcEnv(j)
ConcIterFailed(j) == IterFailed(j) /\ ConcEnv(j)
ConcIterProcessing(j) == IterProcessing(j) /\ ConcEnv(j)
ConcBackgroundWorkerTail(j) == BackgroundWorkerTail(j) /\ ConcEnv(j)

ConcNext ==
    \/ \E j \in Jobs :
        \/ ConcCallSubmitJob(j)
        \/ ConcCallAsubmitJob(j)
        \/ ConcSubmitJobRequest(j)
        \/ StartThread(j)
        \/ AsubmitReturn(j)
        \/ WaitBegin(j)
        \/ IterTimeout(j)
        \/ ConcIterFailed(j)
        \/ ConcIterProcessing(j)
        \/ SubmitJobTail(j)
        \/ ConcBackgroundWorkerTail(j)
    \/ Tick

ConcSpec == Init /\ [][ConcNext]_vars

\* ------------------------------------------- the methods called on their own
\* one call `c` of a public method, outside submit_job / asubmit_job
DirectCall(c) ==
    /\ api_count < MaxApiCalls
    /\ api_count' = api_count + 1
    /\ api_last' = c
    /\ UNCHANGED job_vars

\* service.get_job_status(job_id)
CallGetJobStatus ==
    \E job_id \in JobIds, http \in StatusHttp :
        DirectCall(ApiCall("status", job_id, TRUE, http, get_job_status(job_id, http)))

\* service.delete_job(job_id)
CallDeleteJob ==
    \E job_id \in JobIds, http \in DeleteHttp :
        DirectCall(ApiCall("delete", job_id, TRUE, http, delete_job(job_id, http)))

\* self._submit_job_request(loader, model), the submission of either entry point
CallSubmitJobRequest ==
    \E loader_ok \in BOOLEAN, model \in Models, http \in SubmitHttp :
        DirectCall(ApiCall("submit", NoneStr, loader_ok, http,
                           submit_job_request(loader_ok, model, http)))

ApiNext == CallGetJobStatus \/ CallDeleteJob \/ CallSubmitJobRequest

ApiSpec == Init /\ [][ApiNext]_vars

\* ============================================================== properties
\* ---- vocabulary of the properties
Sync(j) == call[j].mode = "sync"
Async(j) == call[j].mode = "async"

\* _wait_for_completion has been entered / has ended
LoopEntered(j) == pc[j] \in {"loop", "waited", "done", "crashed"}
LoopEnded(j) == pc[j] \in {"waited", "done", "crashed"}

\* the operation is over: submit_job returned or raised, the worker of
\* asubmit_job finished
Over(j) == pc[j] \in {"done", "crashed"}

IsProcessingPoll(http) == http.code = 200 /\ http.body.status = "processing"
IsCompletedPoll(http) == http.code = 200 /\ http.body.status = "completed"
IsFailedPoll(http) == http.code = 200 /\ http.body.status = "failed"

\* every status poll so far succeeded and reported "processing"
AllProcessing(j) == \A i \in 1..Len(polls[j]) : IsProcessingPoll(polls[j][i])

LastPoll(j) == polls[j][Len(polls[j])]
Polled(j) == Len(polls[j]) > 0

\* an invocation of progress_callback raised
ProgressCallbackRaised(j) == LoopEnded(j) /\ wait_result[j].exc.cls = "CallbackError"

\* elapsed time of the poll loop, now and when it ended
Elapsed(j) == now - start_time[j]
ElapsedAtEnd(j) == wait_end[j] - start_time[j]

\* the progress values reported by the "processing" polls, in order
ReportedProgress(j) ==
    LET ps == SelectSeq(polls[j], IsProcessingPoll) IN
    [i \in 1..Len(ps) |-> ps[i].body.progress]

IsPresent(s) == s # NoneStr

\* a sequence with adjacent duplicates collapsed
RECURSIVE Collapse(_)
Collapse(seq) ==
    IF Len(seq) <= 1 THEN seq
    ELSE LET rest == Collapse(Tail(seq)) IN
         IF Head(seq) = Head(rest) THEN rest ELSE <<Head(seq)>> \o rest

NoDuplicates(seq) == \A a, b \in 1..Len(seq) : seq[a] = seq[b] => a = b

\* equal values are contiguous: no value comes back after a different one
RunContiguous(seq) ==
    \A a, b, c \in 1..Len(seq) : (a < b /\ b < c /\ seq[a] = seq[c]) => seq[b] = seq[a]

\* the operation delivered the success `response`: submit_job returned it,
\* asubmit_job's worker passed it to completion_callback with no error
Succeeded(j, response) ==
    IF Sync(j)
    THEN outcome[j].ok /\ outcome[j].val = response
    ELSE completion_calls[j] = <<CompletionCall(response, NoExc)>>

\* the operation delivered the failure `e`: submit_job raised it, asubmit_job's
\* worker passed it to completion_callback with no response
Failed(j, e) ==
    IF Sync(j)
    THEN ~outcome[j].ok /\ outcome[j].exc = e
    ELSE completion_calls[j] = <<CompletionCall(NoResponse, e)>>

\* the response the entry points build from the submission and the content r
ExpectedResponse(j, r) ==
    OcrJobResponse(job_response[j].job_id, "completed", job_response[j].model,
                   "Job completed successfully", r)

\* `msg` carries `text` (every message carries the empty text)
Carries(msg, text) == text = "" \/ \E i \in 1..Len(msg) : msg[i] = text

\* ---- C1
\* C1: for an asubmit_job call whose submit succeeded, completion_callback is
\* invoked exactly once in total once the poll loop has ended and the worker
\* has run to its end - with (response, no error) or with (no response,
\* error), never both - and is not invoked at all before that.
C1_ExactlyOneCompletion ==
    \A j \in Jobs : Async(j) =>
        /\ Over(j) =>
            /\ Len(completion_calls[j]) = 1
            /\ LET c == completion_calls[j][1] IN
               (c.response # NoResponse) # (c.error # NoExc)
        /\ ~Over(j) => completion_calls[j] = <<>>

\* an asubmit_job worker has finished after at least two polls, and its
\* single completion_callback invocation carried an error
C1_Witness ==
    \E j \in Jobs :
        /\ Async(j) /\ Over(j) /\ Len(polls[j]) >= 2
        /\ Len(completion_calls[j]) = 1
        /\ completion_calls[j][1].error # NoExc

\* ---- C2
\* C2: when a status poll reports "completed" with a result r present, the
\* operation succeeds with the response made of the submission's job_id and
\* model, status "completed" and result r (returned by submit_job, passed to
\* completion_callback with no error by asubmit_job).
C2_CompletedDeliversResult ==
    \A j \in Jobs :
        (Over(j) /\ Polled(j) /\ IsCompletedPoll(LastPoll(j))
            /\ IsPresent(LastPoll(j).body.result))
        => Succeeded(j, ExpectedResponse(j, LastPoll(j).body.result))

\* ---- C3
\* C3: a status poll reporting "completed" with the result absent makes the
\* operation fail with LaylaError("Job completed but no result returned"),
\* the protocol violation; it never succeeds.
C3_CompletedWithoutResultIsProtocolViolation ==
    \A j \in Jobs :
        (Over(j) /\ Polled(j) /\ IsCompletedPoll(LastPoll(j))
            /\ ~IsPresent(LastPoll(j).body.result))
        => Failed(j, Exc("LaylaError", <<"Job completed but no result returned">>))

C5_DeliveredIsCollapsedPresent ==
    \A j \in Jobs : call[j].has_progress_callback =>
        progress_calls[j] = Collapse(SelectSeq(ReportedProgress(j), IsPresent))

\* C5 as amended: the invocations are the non-empty progress values (neither
\* None nor "") of the successive "processing" polls with adjacent duplicates
\* collapsed; in particular no value is delivered twice in a row.
C5_DeliveredIsCollapsedNonEmpty ==
    \A j \in Jobs : call[j].has_progress_callback =>
        /\ progress_calls[j] = Collapse(SelectSeq(ReportedProgress(j), Truthy))
        /\ \A i \in 1..(Len(progress_calls[j]) - 1) :
                progress_calls[j][i] # progress_calls[j][i + 1]

\* polls reporting 1/10, 1/10, 2/10 have produced the two invocations 1/10, 2/10
C5_Witness ==
    \E j \in Jobs :
        /\ call[j].has_progress_callback
        /\ ReportedProgress(j) = <<"1/10", "1/10", "2/10">>
        /\ progress_calls[j] = <<"1/10", "2/10">>

\* ---- C6
\* C6 as claimed: no progress value is delivered to progress_callback more
\* than once within one poll loop.
C6_NoValueDeliveredTwice ==
    \A j \in Jobs : NoDuplicates(progress_calls[j])

\* C6 as amended: no progress value is delivered more than once provided the
\* reported non-empty values never come back to a value after a different
\* one (only the value last delivered is remembered).
C6_NoValueDeliveredTwiceIfContiguous ==
    \A j \in Jobs :
        RunContiguous(SelectSeq(ReportedProgress(j), Truthy))
        => NoDuplicates(progress_calls[j])

\* polls reporting 1/10, 2/10, 2/10 have produced the two invocations 1/10, 2/10
C6_Witness ==
    \E j \in Jobs :
        /\ call[j].has_progress_callback
        /\ ReportedProgress(j) = <<"1/10", "2/10", "2/10">>
        /\ progress_calls[j] = <<"1/10", "2/10">>

\* ---- C7
\* a poll loop that ended having seen nothing but "processing" ended with
\* JobTimeoutError
EndedByTimeout(j) ==
    ~wait_result[j].ok /\ wait_result[j].exc.cls = "JobTimeoutError"

\* every poll loop that is entered ends
EveryLoopEnds == \A j \in Jobs : (pc[j] = "loop") ~> LoopEnded(j)

C8_FailedJobPropagates ==
    \A j \in Jobs :
        (LoopEnded(j) /\ Polled(j) /\ IsFailedPoll(LastPoll(j))) =>
            LET e == wait_result[j].exc
                error == LastPoll(j).body.error
            IN
            /\ ~wait_result[j].ok
            /\ e.cls = "JobFailedError"
            /\ Carries(e.msg, job_response[j].job_id)
            /\ IsPresent(error) => Carries(e.msg, error)
            /\ ~IsPresent(error) => Carries(e.msg, "Unknown error")
            /\ Over(j) => Failed(j, e)

\* an asubmit_job call has delivered the JobFailedError carrying "bad scan"
\* to completion_callback
C8_Witness ==
    \E j \in Jobs :
        /\ Async(j) /\ Over(j) /\ Polled(j) /\ IsFailedPoll(LastPoll(j))
        /\ LastPoll(j).body.error = "bad scan"
        /\ Len(completion_calls[j]) = 1
        /\ completion_calls[j][1].error.cls = "JobFailedError"
        /\ Carries(completion_calls[j][1].error.msg, "bad scan")

\* ---- C9
\* C9: with auto_delete true, after a poll reported "completed" with a
\* result r, the operation succeeds with the response carrying r also when
\* the deletion did not succeed: a deletion failure never replaces the result.
C9_DeleteFailureKeepsResult ==
    \A j \in Jobs :
        (call[j].auto_delete /\ Over(j) /\ Polled(j) /\ IsCompletedPoll(LastPoll(j))
            /\ IsPresent(LastPoll(j).body.result) /\ ~delete_result[j].ok)
        => Succeeded(j, ExpectedResponse(j, LastPoll(j).body.result))

\* ---- C10
\* C10: with auto_delete true, when the poll loop has reached a terminal
\* state ("completed" or "failed") a delete of that job id has been issued
\* by the time the outcome is returned or delivered.
C10_DeleteAfterTerminalState ==
    \A j \in Jobs :
        (call[j].auto_delete /\ Over(j) /\ Polled(j)
            /\ (IsCompletedPoll(LastPoll(j)) \/ IsFailedPoll(LastPoll(j))))
        => \E i \in 1..Len(requests[j]) :
                requests[j][i] = Request("delete", job_response[j].job_id)

\* ---- C11
\* C11: asubmit_job never blocks on the poll loop: once the submit round trip
\* has succeeded, starting the worker and returning the submission are
\* enabled whatever the worker is doing (no poll, sleep, terminal state or
\* callback is waited for) and whatever timeout and poll_interval are; what
\* is returned is the submission, carrying the job id.
C11_AsubmitReturnNeverWaits ==
    \A j \in Jobs : Async(j) =>
        /\ caller[j] = "start_thread" => ENABLED StartThread(j)
        /\ caller[j] = "return" => ENABLED AsubmitReturn(j)
        /\ (caller[j] = "done" /\ job_response[j] # NoResponse) =>
                /\ outcome[j].ok
                /\ outcome[j].val = job_response[j]
                /\ outcome[j].val.job_id \in JobIds

\* asubmit_job has returned the submission while its worker, with the largest
\* timeout and poll_interval, has not issued one status poll yet
C11_Witness ==
    \E j \in Jobs :
        /\ Async(j) /\ caller[j] = "done" /\ outcome[j].ok
        /\ pc[j] = "loop" /\ polls[j] = <<>>
        /\ call[j].timeout = MaxTimeout /\ call[j].poll_interval = MaxPollInterval

\* ---- C12
\* C12 as claimed: no error arising during an asubmit_job call is raised to
\* the thread that called asubmit_job (all go to completion_callback).
C12_NoErrorRaisedToAsyncCaller ==
    \A j \in Jobs : (Async(j) /\ caller[j] = "done") => outcome[j].ok

\* C12 as amended: every error arising after the initial submit of an
\* asubmit_job call (in the poll loop and what follows it on the worker) is
\* delivered through completion_callback's error slot and is never raised to
\* the calling thread; an error of the initial submit itself (file not
\* found, invalid request, authentication, network) is raised to the caller
\* of asubmit_job and completion_callback is not invoked for it.
C12_WorkerErrorsGoToCallback ==
    \A j \in Jobs : Async(j) =>
        /\ (Over(j) /\ ~wait_result[j].ok) =>
                completion_calls[j] = <<CompletionCall(NoResponse, wait_result[j].exc)>>
        /\ (caller[j] = "done" /\ job_response[j] # NoResponse) => outcome[j].ok
        /\ (caller[j] = "done" /\ job_response[j] = NoResponse) =>
                /\ ~outcome[j].ok
                /\ outcome[j].exc.cls \in
                     {"FileNotFoundError", "LaylaError", "AuthenticationError",
                      "NetworkError"}
                /\ completion_calls[j] = <<>>
                /\ pc[j] = "none"

\* an asubmit_job call has returned normally and its worker has delivered the
\* AuthenticationError of a status poll to completion_callback
C12_Witness ==
    \E j \in Jobs :
        /\ Async(j) /\ Over(j) /\ caller[j] = "done" /\ outcome[j].ok
        /\ Len(completion_calls[j]) = 1
        /\ completion_calls[j][1].error.cls = "AuthenticationError"

\* ---- C13
\* the get-status calls among the remote calls of a call
StatusRequests(j) == SelectSeq(requests[j], LAMBDA q : q.op = "status")

\* C13: a get-status round trip that fails during polling (transport
\* exception or error status code) is the last one of its call: the poll
\* loop ends with it, without sleeping, with the error get_job_status raised
\* for it, and that error is what the operation fails with.
C13_FailFastOnStatusError ==
    \A j \in Jobs :
        /\ Len(StatusRequests(j)) = Len(polls[j])
        /\ \A i \in 1..Len(polls[j]) : polls[j][i].code # 200 =>
            /\ i = Len(polls[j])
            /\ LoopEnded(j)
            /\ ~wait_result[j].ok
            /\ wait_result[j] = get_job_status(job_response[j].job_id, polls[j][i])
            /\ wake[j] <= wait_end[j]
            /\ Over(j) => Failed(j, wait_result[j].exc)

\* a submit_job call has failed with the NetworkError of its second status
\* poll, a transport failure
C13_Witness ==
    \E j \in Jobs :
        /\ Sync(j) /\ Over(j) /\ Len(polls[j]) = 2 /\ LastPoll(j).code = 0
        /\ ~outcome[j].ok /\ outcome[j].exc.cls = "NetworkError"

\* ---- C14
\* C14: a call of submit, get-status or delete whose request is answered with
\* HTTP 401 or 403 raises AuthenticationError (with the message of the code),
\* not NetworkError.
C14_AuthFailuresAreAuthentication ==
    (api_last.sent /\ api_last.http.code \in {401, 403}) =>
        /\ ~api_last.result.ok
        /\ api_last.result.exc.cls = "AuthenticationError"
        /\ api_last.result.exc.cls # "NetworkError"
        /\ api_last.result.exc.msg =
                IF api_last.http.code = 401 THEN <<"Missing API key">>
                                            ELSE <<"Invalid API key">>

\* delete_job answered with 403 has raised AuthenticationError
C14_Witness ==
    /\ api_last.op = "delete" /\ api_last.http.code = 403
    /\ api_last.result.exc.cls = "AuthenticationError"

\* ---- C15
\* the statuses the service can report that the loop does not know
UnknownStatuses == {p.status : p \in StatusPayloads} \ {"processing", "completed", "failed"}

\* the errors of the kinds InvalidRequest and ProtocolViolation
OtherLaylaErrors ==
    {InvalidRequestError(t) : t \in ErrorBodies} \cup {NoResultError}
    \cup {UnknownStatusError(st) : st \in UnknownStatuses}

\* the call was get_job_status or delete_job and was answered with HTTP 404
NotFoundCall == api_last.op \in {"status", "delete"} /\ api_last.http.code = 404

ListedCodes(op) ==
    IF op = "status" THEN {401, 403, 404, 503}
    ELSE IF op = "delete" THEN {401, 403, 404}
    ELSE {400, 401, 403, 503}

\* the call sent its request and got an error status code its method has no
\* branch for
UnlistedErrorCall ==
    /\ api_last.sent
    /\ api_last.http.code >= 400
    /\ api_last.http.code \notin ListedCodes(api_last.op)

\* C16 (as stated): an error status code not listed for the endpoint yields
\* an error that carries the raw status and the body and whose kind is none of
\* Authentication, NotFound, Network and InvalidRequest.
C16_UnlistedCodeIsGenericError ==
    UnlistedErrorCall =>
        /\ ~api_last.result.ok
        /\ Carries(api_last.result.exc.msg, ToString(api_last.http.code))
        /\ Carries(api_last.result.exc.msg, api_last.http.text)
        /\ api_last.result.exc.cls \notin {"AuthenticationError", "NetworkError"}
        /\ api_last.result.exc.msg[1] \notin {"Job not found: ", "Invalid request: "}

\* C16 (amended): an error status code not listed for the endpoint raises
\* NetworkError, the class of a transport failure, with the message
\* "Failed to ...: <status> Client|Server Error": it carries the status code
\* and not the body, and it is neither the Authentication error nor one of
\* the base LaylaErrors (NotFound, InvalidRequest).
C16_UnlistedCodeIsNetworkError ==
    UnlistedErrorCall =>
        /\ ~api_last.result.ok
        /\ api_last.result.exc.cls = "NetworkError"
        /\ api_last.result.exc.msg[1] \in
                {"Failed to get job status: ", "Failed to delete job: ", "Failed to submit job: "}
        /\ Carries(api_last.result.exc.msg, ToString(api_last.http.code))
        /\ ~Carries(api_last.result.exc.msg, api_last.http.text)
        /\ api_last.result.exc.cls \notin {"AuthenticationError", "LaylaError"}

\* delete_job answered with 503 has raised NetworkError
C16_Witness ==
    /\ UnlistedErrorCall /\ api_last.op = "delete" /\ api_last.http.code = 503
    /\ api_last.result.exc.cls = "NetworkError"

\* ---- C17
\* what a step leaves alone of a call whose poll loop has ended: no status
\* request, no poll, no progress_callback invocation, no sleep, and the
\* loop's result stays
LoopStateKept(j) ==
    /\ LoopEnded(j)'
    /\ polls'[j] = polls[j]
    /\ SelectSeq(requests'[j], LAMBDA q : q.op = "status") = StatusRequests(j)
    /\ progress_calls'[j] = progress_calls[j]
    /\ wake'[j] = wake[j]
    /\ wait_result'[j] = wait_result[j]
    /\ wait_end'[j] = wait_end[j]

\* how the step that leaves the poll loop leaves it: by returning after a
\* "completed" poll, or by raising (JobFailedError after a "failed" poll,
\* JobTimeoutError without a poll, or another error)
LoopLeftProperly(j) ==
    /\ pc'[j] = "waited"
    /\ wait_end'[j] = now
    /\ \/ /\ wait_result'[j].ok
          /\ Len(polls'[j]) = Len(polls[j]) + 1
          /\ IsCompletedPoll(polls'[j][Len(polls'[j])])
       \/ /\ ~wait_result'[j].ok
          /\ wait_result'[j].exc # NoExc
          /\ wait_result'[j].exc.cls = "JobTimeoutError" => polls'[j] = polls[j]
          /\ wait_result'[j].exc.cls = "JobFailedError" =>
                /\ Len(polls'[j]) = Len(polls[j]) + 1
                /\ IsFailedPoll(polls'[j][Len(polls'[j])])

\* C17: once the poll loop of a call has ended (after "completed", after
\* "failed", by the timeout or by an error) no step polls, requests the
\* status, invokes progress_callback or sleeps for that call again; and the
\* loop is left only by returning after "completed" or by raising.
C17_TerminalStatesAbsorb ==
    [][\A j \in Jobs :
        /\ LoopEnded(j) => LoopStateKept(j)
        /\ (pc[j] = "loop" /\ pc'[j] # "loop") => LoopLeftProperly(j)
        /\ (Len(polls'[j]) > Len(polls[j]) /\ IsFailedPoll(LastPoll(j))') => LoopEnded(j)'
        /\ (Len(polls'[j]) > Len(polls[j]) /\ IsCompletedPoll(LastPoll(j))') => LoopEnded(j)'
      ]_vars

\* a call is over whose loop ended on the "failed" answer to its second poll,
\* after a progress_callback invocation and a sleep
C17_Witness ==
    \E j \in Jobs :
        /\ Over(j) /\ Len(polls[j]) = 2 /\ IsFailedPoll(LastPoll(j))
        /\ Len(progress_calls[j]) = 1 /\ wake[j] > start_time[j]

\* ---- C18
\* the poll was answered with a status outside processing/completed/failed
IsUnknownPoll(http) ==
    http.code = 200 /\ http.body.status \notin {"processing", "completed", "failed"}

\* C18: a status poll reporting a status other than "processing",
\* "completed" or "failed" is the last poll of its call: the loop ends with
\* it, without sleeping, raising the base LaylaError "Unknown job status:
\* <value>", and progress_callback is not invoked for that response (the
\* invocations are those of the "processing" polls alone).
C18_UnknownStatusEndsLoop ==
    \A j \in Jobs : \A i \in 1..Len(polls[j]) : IsUnknownPoll(polls[j][i]) =>
        /\ i = Len(polls[j])
        /\ LoopEnded(j)
        /\ Len(StatusRequests(j)) = Len(polls[j])
        /\ wait_result[j] =
             Raised(Exc("LaylaError", <<"Unknown job status: ", polls[j][i].body.status>>))
        /\ wake[j] <= wait_end[j]
        /\ progress_calls[j] =
             IF call[j].has_progress_callback
             THEN Collapse(SelectSeq(ReportedProgress(j), Truthy))
             ELSE <<>>
        /\ Over(j) => Failed(j, wait_result[j].exc)

\* a call with a progress_callback is over whose second poll reported
\* "queued" with a progress value never reported before
C18_Witness ==
    \E j \in Jobs :
        /\ Over(j) /\ call[j].has_progress_callback /\ Len(polls[j]) = 2
        /\ IsUnknownPoll(LastPoll(j)) /\ LastPoll(j).body.progress = "2/10"
        /\ progress_calls[j] = <<"1/10">>

\* ---- C20
\* the call's poll_interval is at least its timeout, which is positive
IntervalCoversTimeout(j) ==
    call[j].poll_interval >= call[j].timeout /\ call[j].timeout > 0

\* C20: when poll_interval >= timeout > 0 and every poll is answered
\* "processing", at most two get-status requests are issued, and the loop,
\* unless progress_callback raised, ends with JobTimeoutError after at least
\* one of them.
C20_AtMostTwoPolls ==
    \A j \in Jobs : (LoopEntered(j) /\ IntervalCoversTimeout(j) /\ AllProcessing(j)) =>
        /\ Len(polls[j]) <= 2
        /\ Len(StatusRequests(j)) <= 2
        /\ (LoopEnded(j) /\ ~ProgressCallbackRaised(j)) =>
                /\ EndedByTimeout(j)
                /\ Len(polls[j]) >= 1

\* a call with poll_interval = timeout has timed out after two "processing" polls
C20_Witness ==
    \E j \in Jobs :
        /\ Over(j) /\ IntervalCoversTimeout(j) /\ AllProcessing(j)
        /\ call[j].poll_interval = call[j].timeout
        /\ Len(polls[j]) = 2 /\ EndedByTimeout(j)

\* ---- C19
\* the number of polls a call running alone makes when every answer is
\* "processing": one at elapsed 0 and one after each sleep that ends at an
\* elapsed time not above the timeout
SoloPolls(j) == (call[j].timeout \div call[j].poll_interval) + 1

\* the last value passed to progress_callback, None before the first
LastDelivered(j) ==
    IF progress_calls[j] = <<>> THEN NoneStr ELSE progress_calls[j][Len(progress_calls[j])]

\* What a call gets when it runs alone, as a function of its own arguments
\* and of the answers to its own polls: its progress_callback invocations,
\* its timeout decision and its outcome
AsIfAlone(j) ==
    /\ progress_calls[j] = Collapse(SelectSeq(ReportedProgress(j), Truthy))
    /\ last_progress[j] = LastDelivered(j)
    /\ Len(polls[j]) <= SoloPolls(j)
    /\ (LoopEnded(j) /\ AllProcessing(j)) =>
            /\ EndedByTimeout(j)
            /\ Len(polls[j]) = SoloPolls(j)
            /\ ElapsedAtEnd(j) = SoloPolls(j) * call[j].poll_interval
    /\ (LoopEnded(j) /\ ~AllProcessing(j)) =>
            /\ IsFailedPoll(LastPoll(j))
            /\ wait_result[j] =
                 Raised(FailedError(ConcJobId(j),
                        get_job_status(ConcJobId(j), LastPoll(j)).val))
            /\ ElapsedAtEnd(j) = (Len(polls[j]) - 1) * call[j].poll_interval
    /\ Over(j) => Failed(j, wait_result[j].exc)

\* the step is one of call j's own loop: its start or one of its iterations
LoopStep(j) == pc[j] \in {"begin", "loop"} /\ (pc'[j] # pc[j] \/ polls'[j] # polls[j])

\* the loop variables and records of call j are left alone by the step
LoopUntouched(j) ==
    /\ start_time'[j] = start_time[j]
    /\ last_progress'[j] = last_progress[j]
    /\ wake'[j] = wake[j]
    /\ polls'[j] = polls[j]
    /\ progress_calls'[j] = progress_calls[j]
    /\ wait_result'[j] = wait_result[j]

\* C19: with two calls running concurrently on one instance, under every
\* interleaving each call's progress_callback invocations, timeout decision
\* and outcome are those it gets when it runs alone; and start_time and
\* last_progress of a call are written by that call's own loop only, each
\* step of a loop leaving the other call's loop variables alone.
C19_LoopsIndependent ==
    /\ [](\A j \in Jobs : LoopEntered(j) => AsIfAlone(j))
    /\ [][\A j \in Jobs : LoopUntouched(j) \/ LoopStep(j)]_vars
    /\ [][\A j, k \in Jobs : (j # k /\ LoopStep(j)) => LoopUntouched(k)]_vars

\* both calls are over; the second one's loop began while the first one's was
\* asleep after delivering "1/10", the first went on to see "1/10" again
\* without a second invocation and timed out, the second failed
C19_Witness ==
    \E j, k \in Jobs :
        /\ j # k /\ Over(j) /\ Over(k)
        /\ start_time[j] < start_time[k] /\ start_time[k] < wait_end[j]
        /\ Len(polls[j]) >= 2 /\ AllProcessing(j) /\ EndedByTimeout(j)
        /\ ReportedProgress(j)[1] = "1/10" /\ ReportedProgress(j)[2] = "1/10"
        /\ progress_calls[j] = <<"1/10">>
        /\ Polled(k) /\ IsFailedPoll(LastPoll(k))

\* ---- C21
\* the remote calls of a call, by operation
Ops(j) == [i \in 1..Len(requests[j]) |-> requests[j][i].op]

\* the entry point is past self._submit_job_request(loader, model)
SubmitDone(j) == caller[j] \notin {"idle", "submitting"}

\* after the first remote call, a submit, come get-status calls for the
\* submitted job only, made only when the submit succeeded, then at most one
\* delete, made only after a "completed" poll and only with auto_delete
CallsAfterSubmitInOrder(j) ==
    /\ ~SubmitDone(j) => requests[j] = <<>>
    /\ \A i \in 1..Len(requests[j]) :
        /\ Ops(j)[i] = "submit" => i = 1
        /\ Ops(j)[i] = "status" =>
                /\ i > 1
                /\ job_response[j] # NoResponse
                /\ requests[j][i].job_id = job_response[j].job_id
        /\ Ops(j)[i] = "delete" =>
                /\ i = Len(requests[j]) /\ i > 1
                /\ Polled(j) /\ IsCompletedPoll(LastPoll(j))
                /\ call[j].auto_delete

\* C21 (as stated): every run issues exactly one submit, first, then
\* get-status calls only if the submit succeeded, then at most one delete,
\* only after a "completed" poll and only with auto_delete.
C21_OneSubmitThenPollsThenDelete ==
    \A j \in Jobs :
        /\ SubmitDone(j) => (Len(requests[j]) >= 1 /\ Ops(j)[1] = "submit")
        /\ CallsAfterSubmitInOrder(j)

\* C21 (amended): every run issues at most one submit, first: exactly one,
\* unless loader.load() raised, in which case the run makes no remote call at
\* all and fails with the loader's error; then get-status calls only if the
\* submit succeeded, then at most one delete, only after a "completed" poll
\* and only with auto_delete.
C21_AtMostOneSubmitThenPollsThenDelete ==
    \A j \in Jobs :
        /\ SubmitDone(j) =>
            \/ Len(requests[j]) >= 1 /\ Ops(j)[1] = "submit"
            \/ /\ requests[j] = <<>>
               /\ caller[j] = "done" /\ pc[j] = "none"
               /\ ~outcome[j].ok /\ outcome[j].exc.cls = "FileNotFoundError"
        /\ (~outcome[j].ok /\ outcome[j].exc.cls = "FileNotFoundError") => requests[j] = <<>>
        /\ CallsAfterSubmitInOrder(j)

\* a call is over that made a submit and two get-status calls, in that order
C21_Witness ==
    \E j \in Jobs :
        /\ Over(j) /\ Ops(j) = <<"submit", "status", "status">>
        /\ call[j].auto_delete

\* ---- C22
\* the loop of call j is at the top of an iteration with the elapsed time
\* above the timeout
OverdueAtLoopTop(j) == pc[j] = "loop" /\ now >= wake[j] /\ Elapsed(j) > call[j].timeout

\* C22: at the top of an iteration with elapsed > timeout no get-status can
\* be issued, whatever the service would answer: the only step of the loop
\* is the one that ends it with JobTimeoutError, leaving the polls as they
\* are.  With a negative timeout the loop ends so with no poll at all, the
\* submit being the only remote call, and JobTimeoutError is the outcome.
C22_TimeoutCheckedBeforeFetch ==
    /\ [](\A j \in Jobs : OverdueAtLoopTop(j) =>
            /\ ENABLED IterTimeout(j)
            /\ ~ENABLED IterCompleted(j)
            /\ ~ENABLED IterFailed(j)
            /\ ~ENABLED IterProcessing(j)
            /\ ~ENABLED IterStatusError(j)
            /\ ~ENABLED IterUnknown(j))
    /\ [][\A j \in Jobs : (OverdueAtLoopTop(j) /\ pc'[j] # pc[j]) =>
            /\ polls'[j] = polls[j]
            /\ requests'[j] = requests[j]
            /\ progress_calls'[j] = progress_calls[j]
            /\ EndedByTimeout(j)'
            /\ wait_end'[j] = now]_vars
    /\ [](\A j \in Jobs : (call[j].timeout < 0 /\ LoopEnded(j)) =>
            /\ polls[j] = <<>>
            /\ Ops(j) = <<"submit">>
            /\ EndedByTimeout(j)
            /\ ElapsedAtEnd(j) = 0
            /\ Over(j) => Failed(j, wait_result[j].exc))

\* a submit_job call with a negative timeout has raised JobTimeoutError
\* after its submit, with no status poll
C22_Witness ==
    \E j \in Jobs :
        /\ Sync(j) /\ Over(j) /\ call[j].timeout < 0
        /\ Ops(j) = <<"submit">>
        /\ ~outcome[j].ok /\ outcome[j].exc.cls = "JobTimeoutError"

\* a call's loop has timed out after a poll, at the top of a later iteration
C22_WitnessAfterPoll ==
    \E j \in Jobs : LoopEnded(j) /\ EndedByTimeout(j) /\ Len(polls[j]) >= 1

\* ---- C23
\* the errors _submit_job_request can raise: the loader's, and those of the
\* request (400, 401, 403, 503, other error codes, transport exception)
SubmitErrors ==
    {r.exc : r \in {rr \in {submit_job_request(loader_ok, model, http) :
                                loader_ok \in BOOLEAN, model \in Models, http \in SubmitHttp} :
                        ~rr.ok}}

\* the initial submit of the call failed
SubmitFailed(j) == SubmitDone(j) /\ job_response[j] = NoResponse

\* the call has no worker thread, made no remote call but its submit and
\* invoked no callback
NothingBeyondSubmit(j) ==
    /\ pc[j] = "none"
    /\ polls[j] = <<>>
    /\ \A i \in 1..Len(requests[j]) : i = 1 /\ Ops(j)[i] = "submit"
    /\ completion_calls[j] = <<>>
    /\ progress_calls[j] = <<>>
    /\ wait_result[j] = Pending
    /\ delete_result[j] = Pending

\* C23: when the initial submit of asubmit_job fails, asubmit_job raises that
\* error to its caller; no worker thread exists, no get-status or delete
\* call is made and neither callback is invoked, then or at any later time.
C23_FailedSubmitRaisesAndStops ==
    /\ [](\A j \in Jobs : (Async(j) /\ SubmitFailed(j)) =>
            /\ caller[j] = "done"
            /\ ~outcome[j].ok
            /\ outcome[j].exc \in SubmitErrors
            /\ NothingBeyondSubmit(j)
            /\ ~ENABLED StartThread(j)
            /\ ~ENABLED WaitBegin(j)
            /\ ~ENABLED BackgroundWorkerTail(j))
    /\ [][\A j \in Jobs : (Async(j) /\ SubmitFailed(j)) =>
            /\ (Async(j) /\ SubmitFailed(j))'
            /\ outcome'[j] = outcome[j]
            /\ requests'[j] = requests[j]]_vars

\* an asubmit_job call whose submit was answered 401 has raised
\* AuthenticationError to its caller
C23_Witness ==
    \E j \in Jobs :
        /\ Async(j) /\ SubmitFailed(j) /\ Ops(j) = <<"submit">>
        /\ ~outcome[j].ok
        /\ outcome[j].exc = Exc("AuthenticationError", <<"Missing API key">>)

\* ---- C24
\* the exception of a completion_callback invocation that raises
CompletionCallbackError == Exc("CallbackError", <<"completion_callback">>)

\* the worker's call is over after a poll that reported "completed" with a
\* result present
WorkerSawResult(j) ==
    /\ Async(j) /\ Over(j) /\ Polled(j)
    /\ IsCompletedPoll(LastPoll(j)) /\ IsPresent(LastPoll(j).body.result)

\* the progress_callback part of C24: an exception raised by
\* progress_callback ends the poll loop and the worker passes it to
\* completion_callback as (None, exception), its only invocation
C24_ProgressCallbackErrorDelivered ==
    \A j \in Jobs : (Async(j) /\ ProgressCallbackRaised(j)) =>
        /\ IsProcessingPoll(LastPoll(j))
        /\ LastDelivered(j) = LastPoll(j).body.progress
        /\ wait_result[j] = Raised(Exc("CallbackError", <<"progress_callback">>))
        /\ Over(j) => completion_calls[j] = <<CompletionCall(NoResponse, wait_result[j].exc)>>

\* a worker has passed the exception of progress_callback to completion_callback
C24_ProgressWitness ==
    \E j \in Jobs :
        /\ Async(j) /\ Over(j) /\ ProgressCallbackRaised(j) /\ Len(polls[j]) = 2
        /\ completion_calls[j] =
             <<CompletionCall(NoResponse, Exc("CallbackError", <<"progress_callback">>))>>

\* C24: in the asubmit_job worker, after a "completed" poll with a result
\* completion_callback is invoked with (final_response, None), and if that
\* invocation raises, a second time with (None, that exception) and no more;
\* and an exception raised by progress_callback ends the poll loop and is
\* delivered as (None, exception).
C24_CallbackErrorsRedelivered ==
    /\ \A j \in Jobs : WorkerSawResult(j) =>
        LET success == CompletionCall(ExpectedResponse(j, LastPoll(j).body.result), NoExc) IN
        \/ completion_calls[j] = <<success>>
        \/ completion_calls[j] = <<success, CompletionCall(NoResponse, CompletionCallbackError)>>
    /\ C24_ProgressCallbackErrorDelivered

====
